---- MODULE Spec2Model ----
(***************************************************************************)
(* NGNX.Driver (src/src/driver.js) and NGNX.Controller                     *)
(* (src/src/controller.js): two facades over the NGN event bus, the DOM    *)
(* reference registry, the templating primitive and NGN data stores.       *)
(*                                                                         *)
(* A JavaScript value is a record [type, val]; an array-like (an           *)
(* `arguments` object) carries its elements in `items`, and a key/value    *)
(* object its entries, in key order, in `entries`.  Event names are TLA+   *)
(* strings, so a namespaced name is a real concatenation.                  *)
(*                                                                         *)
(* Every method is a function from the world before the call to the world  *)
(* after it: the world holds the facade's fields, the global registries,   *)
(* the calls made on the external collaborators during the method (in      *)
(* order) and the error the method threw, if any.  A step of a method does *)
(* nothing once an error is thrown, which is how a throw aborts the rest.  *)
(***************************************************************************)
EXTENDS Integers, Sequences, FiniteSets, TLC

VARIABLES
    phase,        \* "new" before the constructor ran, "ready" after, "failed" when it threw
    kind,         \* "Driver" or "Controller"
    scope,        \* this.scope: Null or a string value
    id,           \* Driver: this.id (a string)
    busAvailable, \* whether NGN.BUS is there (truthy)
    hasDOM,       \* whether NGN.hasOwnProperty('DOM')
    REF,          \* the global reference registry: name -> selector value
    ref,          \* Driver: this.ref, original name -> name in the global registry
    datastores,   \* this.datastores: name -> store
    listeners,    \* the listeners attached to the stores, in the order attached
    busHandlers,  \* the handlers subscribed on the bus, in the order subscribed
    events,       \* Controller: this.events, the event names on() accepts
    templates,    \* this.templates: name -> source
    pending,      \* the continuations handed to NGN.NET.template and not yet invoked
    dom,          \* the parent element's neighbourhood: children, previous and next sibling
    op,           \* the last method called: [name, args]
    calls,        \* the calls the last method made on the collaborators, in order
    threw,        \* the error the last method threw, or NoError
    others        \* the Drivers constructed before this one: their id and this.ref

vars == << phase, kind, scope, id, busAvailable, hasDOM, REF, ref, datastores,
           listeners, busHandlers, events, templates, pending, dom, op, calls,
           threw, others >>

(***************************************************************************)
(* Bounds of the model.                                                    *)
(***************************************************************************)
MaxHandlers == 2
MaxAttach == 3
MaxPending == 1
MaxChildren == 1
MaxDrivers == 2

(***************************************************************************)
(* JavaScript values.                                                      *)
(***************************************************************************)
Str(s) == [type |-> "string", val |-> s]
Num(s) == [type |-> "number", val |-> s]
Fn(s) == [type |-> "function", val |-> s]
Obj(s) == [type |-> "object", val |-> s]
Null == [type |-> "null", val |-> "null"]
Undefined == [type |-> "undefined", val |-> "undefined"]
Bool(b) == [type |-> "boolean", val |-> IF b THEN "true" ELSE "false"]
ArgsObj(items) == [type |-> "arguments", val |-> "", items |-> items]
MapObj(entries) == [type |-> "map", val |-> "", entries |-> entries]
EmptyMap == MapObj(<< >>)

\* typeof v
TypeOf(v) ==
    IF v.type \in {"null", "arguments", "map"} THEN "object" ELSE v.type

\* !v
Falsy(v) ==
    \/ v.type \in {"null", "undefined"}
    \/ v.type = "string" /\ v.val = ""
    \/ v.type = "number" /\ v.val = "0"
    \/ v.type = "boolean" /\ v.val = "false"

\* The string a value becomes when it is concatenated to a string.
JsToString(v) ==
    CASE v.type \in {"string", "number", "boolean", "null", "undefined"} -> v.val
      [] v.type = "function" -> "function " \o v.val
      [] v.type = "arguments" -> "[object Arguments]"
      [] OTHER -> "[object Object]"

\* a || b
OrElse(a, b) == IF Falsy(a) THEN b ELSE a

\* NGN.coalesce: the first argument that is neither null nor undefined.
RECURSIVE Coalesce(_)
Coalesce(vs) ==
    IF vs = << >> THEN Undefined
    ELSE IF Head(vs).type \in {"null", "undefined"} /\ Len(vs) > 1
         THEN Coalesce(Tail(vs))
         ELSE Head(vs)

(***************************************************************************)
(* Strings.                                                                *)
(***************************************************************************)
CharAt(s, i) == SubSeq(s, i, i)

WhiteSpace == {" "}

RECURSIVE TrimLeft(_)
TrimLeft(s) ==
    IF Len(s) > 0 /\ CharAt(s, 1) \in WhiteSpace
    THEN TrimLeft(SubSeq(s, 2, Len(s)))
    ELSE s

RECURSIVE TrimRight(_)
TrimRight(s) ==
    IF Len(s) > 0 /\ CharAt(s, Len(s)) \in WhiteSpace
    THEN TrimRight(SubSeq(s, 1, Len(s) - 1))
    ELSE s

\* String.prototype.trim
Trim(s) == TrimRight(TrimLeft(s))

AlphaNumeric ==
    {"a", "b", "c", "d", "e", "f", "g", "h", "i", "j", "k", "l", "m",
     "n", "o", "p", "q", "r", "s", "t", "u", "v", "w", "x", "y", "z",
     "A", "B", "C", "D", "E", "F", "G", "H", "I", "J", "K", "L", "M",
     "N", "O", "P", "Q", "R", "S", "T", "U", "V", "W", "X", "Y", "Z",
     "0", "1", "2", "3", "4", "5", "6", "7", "8", "9"}

UpperCase == "ABCDEFGHIJKLMNOPQRSTUVWXYZ"
LowerCase == "abcdefghijklmnopqrstuvwxyz"

\* String.prototype.toLowerCase
RECURSIVE ToLowerCase(_)
ToLowerCase(s) ==
    IF Len(s) = 0 THEN s
    ELSE LET c == CharAt(s, 1)
             up == {i \in 1..Len(UpperCase) : CharAt(UpperCase, i) = c}
         IN  (IF up = {} THEN c ELSE CharAt(LowerCase, CHOOSE i \in up : TRUE))
             \o ToLowerCase(SubSeq(s, 2, Len(s)))

\* s.replace(/[^A-Za-z0-9]/gi, '')
RECURSIVE Sanitize(_)
Sanitize(s) ==
    IF Len(s) = 0 THEN s
    ELSE (IF CharAt(s, 1) \in AlphaNumeric THEN CharAt(s, 1) ELSE "")
         \o Sanitize(SubSeq(s, 2, Len(s)))

(***************************************************************************)
(* Errors, and the world a method runs in.                                 *)
(***************************************************************************)
NoError == [type |-> "none", message |-> ""]
Error(msg) == [type |-> "Error", message |-> msg]
TypeError(msg) == [type |-> "TypeError", message |-> msg]

Ok(w) == w.threw = NoError

Throw(w, e) == IF Ok(w) THEN [w EXCEPT !.threw = e] ELSE w

\* One call on an external collaborator, recorded in order.
Call(w, obj, fn, args) ==
    IF Ok(w)
    THEN [w EXCEPT !.calls = Append(@, [obj |-> obj, fn |-> fn, args |-> args])]
    ELSE w

\* NGN.css, the style string the warnings are given.
NGNcss == Str("NGN.css")

Warn(w, args) == Call(w, "console", "warn", args)

World ==
    [kind |-> kind, scope |-> scope, id |-> id, busAvailable |-> busAvailable,
     hasDOM |-> hasDOM, REF |-> REF, ref |-> ref, datastores |-> datastores,
     listeners |-> listeners, busHandlers |-> busHandlers, events |-> events,
     templates |-> templates, pending |-> pending, dom |-> dom,
     calls |-> << >>, threw |-> NoError, others |-> others]

\* The state after method `name` was called with `args` and left world w.
Commit(name, args, w) ==
    /\ op' = [name |-> name, args |-> args]
    /\ kind' = w.kind
    /\ scope' = w.scope
    /\ id' = w.id
    /\ busAvailable' = w.busAvailable
    /\ hasDOM' = w.hasDOM
    /\ REF' = w.REF
    /\ ref' = w.ref
    /\ datastores' = w.datastores
    /\ listeners' = w.listeners
    /\ busHandlers' = w.busHandlers
    /\ events' = w.events
    /\ templates' = w.templates
    /\ pending' = w.pending
    /\ dom' = w.dom
    /\ calls' = w.calls
    /\ threw' = w.threw
    /\ others' = w.others

\* A key/value table: a function whose domain is the keys it holds.
EmptyTable == [k \in {} |-> Null]
Has(table, k) == k \in DOMAIN table
Put(table, k, v) == [x \in DOMAIN table \cup {k} |-> IF x = k THEN v ELSE table[x]]

\* arguments[i], undefined beyond the end (i counts from 1).
Arg(args, i) == IF i <= Len(args) THEN args[i] ELSE Undefined

RECURSIVE Without(_, _)
\* The handlers that are not subscribed to `event`.
Without(hs, event) ==
    IF hs = << >> THEN << >>
    ELSE IF Head(hs).event = event THEN Without(Tail(hs), event)
         ELSE << Head(hs) >> \o Without(Tail(hs), event)

RECURSIVE WithoutOnce(_, _)
\* The handlers left after `event` was emitted: its one-time handlers are gone.
WithoutOnce(hs, event) ==
    IF hs = << >> THEN << >>
    ELSE IF Head(hs).event = event /\ Head(hs).once THEN WithoutOnce(Tail(hs), event)
         ELSE << Head(hs) >> \o WithoutOnce(Tail(hs), event)

(***************************************************************************)
(* The global bus NGN.BUS, as the facades use it.                          *)
(***************************************************************************)
\* Reading a member of NGN.BUS (NGN.BUS.on, NGN.BUS.emit, ...): a TypeError when
\* NGN.BUS is not there.  In `NGN.BUS.f.apply(NGN.BUS, x)` the member is read
\* before x is evaluated.
BusMember(w, fn) ==
    IF w.busAvailable THEN w
    ELSE Throw(w, TypeError("Cannot read property '" \o fn \o "' of undefined"))

\* What the bus does on NGN.BUS[fn](args): on/once subscribe a handler to a
\* name, off(name) drops every handler of the name, emit uses up the one-time
\* handlers of the name.
BusEffect(hs, fn, args) ==
    IF Len(args) = 0 \/ Arg(args, 1).type # "string" THEN hs
    ELSE CASE fn \in {"on", "once"} /\ Arg(args, 2).type = "function" ->
                Append(hs, [event |-> args[1].val, handler |-> args[2].val,
                            once |-> (fn = "once")])
           [] fn = "off" /\ Len(args) = 1 -> Without(hs, args[1].val)
           [] fn = "emit" -> WithoutOnce(hs, args[1].val)
           [] OTHER -> hs

\* NGN.BUS[fn](args), NGN.BUS[fn] already read.
BusInvoke(w, fn, args) ==
    IF Ok(w)
    THEN [Call(w, "BUS", fn, args) EXCEPT
              !.busHandlers = BusEffect(@, fn, args)]
    ELSE w

\* NGN.BUS[fn].apply(NGN.BUS, ret), NGN.BUS[fn] already read: ret is an
\* array-like, or undefined (no arguments).
BusApply(w, fn, ret) ==
    BusInvoke(w, fn, IF ret.type = "undefined" THEN << >> ELSE ret.items)

\* NGN.BUS[fn](args)
BusCall(w, fn, args) == BusInvoke(BusMember(w, fn), fn, args)

(***************************************************************************)
(* Driver: namespacing (driver.js 584-784).                                *)
(***************************************************************************)
\* Driver.applyNamespace(args): the world after it and what it returns.  In the
\* first two branches the code returns `arguments`, which inside
\* applyNamespace is applyNamespace's own argument list: a one-element
\* array-like holding args.
ApplyNamespaceNoPrefix(w, args) ==
    [w |-> w, ret |-> IF Ok(w) THEN ArgsObj(args) ELSE Undefined]

ApplyNamespace(w, args) ==
    IF ~Ok(w) THEN [w |-> w, ret |-> Undefined]
    ELSE IF Len(args) = 0 THEN [w |-> w, ret |-> ArgsObj(<< ArgsObj(args) >>)]
    ELSE IF TypeOf(args[1]) # "string"
         THEN [w |-> w, ret |-> ArgsObj(<< ArgsObj(args) >>)]
    ELSE IF ~w.busAvailable
         THEN [w |-> Warn(w, << Str("%cNGNX.Driver.on('"
                                    \o JsToString(ArgsObj(args))
                                    \o "', ...)%c will not work because NGN.BUS is not available."),
                                NGNcss, Str("") >>),
               ret |-> Undefined]
    ELSE [w |-> w,
          ret |-> ArgsObj([args EXCEPT ![1] =
                     Str(JsToString(Coalesce(<< w.scope, Str("") >>)) \o args[1].val)])]

\* NGN.BUS[fn].apply(NGN.BUS, this.applyNamespace(arguments))
Namespaced(w, fn, args) ==
    LET w1 == BusMember(w, fn)
        r == ApplyNamespace(w1, args)
    IN  BusApply(r.w, fn, r.ret)

Deprecation(w, args) ==
    IF Len(args) > 0 /\ args[1] = Str("template.render")
    THEN Warn(w, << Str("%cDEPRECATION NOTICE:%c \"template.render\" event is now \"template.rendered\""),
                    NGNcss, Str("") >>)
    ELSE w

\* Driver.pool(extra, data)
DriverPool(w, extra, data) ==
    LET isObj == TypeOf(extra) = "object"
        d == IF isObj THEN extra ELSE data
        x == IF isObj THEN Str("") ELSE extra
        s == Trim(JsToString(Coalesce(<< w.scope, Str("") >>)) \o JsToString(x))
    IN  BusCall(w, "pool", << IF Len(s) > 0 THEN Str(s) ELSE Null, d >>)

\* Driver.on(...arguments)
DriverOn(w, args) ==
    IF Len(args) > 0 /\ TypeOf(args[1]) = "object"
    THEN DriverPool(w, Arg(args, 1), Arg(args, 2))
    ELSE Namespaced(Deprecation(w, args), "on", args)

\* Driver.once(...arguments)
DriverOnce(w, args) ==
    IF Len(args) > 0 /\ TypeOf(args[1]) = "object"
    THEN Throw(w, Error("Nested/pooled events (object) are only supported for the on() method."))
    ELSE Namespaced(Deprecation(w, args), "once", args)

\* Driver.emit, forward, delayEmit, threshold, thresholdOnce, attach
DriverEmit(w, args) == Namespaced(w, "emit", args)
DriverForward(w, args) == Namespaced(w, "forward", args)
DriverDelayEmit(w, args) == Namespaced(w, "delayEmit", args)
DriverThreshold(w, args) == Namespaced(w, "threshold", args)
DriverThresholdOnce(w, args) == Namespaced(w, "thresholdOnce", args)
DriverAttach(w, args) == Namespaced(w, "attach", args)

(***************************************************************************)
(* Controller.on (controller.js 238-248).                                  *)
(***************************************************************************)
RECURSIVE IndexOf(_, _)
\* Whether array.indexOf(x) >= 0.
IndexOf(array, x) ==
    IF array = << >> THEN FALSE
    ELSE Head(array) = x \/ IndexOf(Tail(array), x)

ControllerOn(w, topic, handler) ==
    IF ~w.busAvailable
    THEN Warn(w, << Str("NGNX.Controller.on('" \o JsToString(topic)
                        \o "', ...) will not work because NGN.BUS is not available.") >>)
    ELSE IF IndexOf(w.events, topic)
         THEN BusCall(w, "on", << topic, handler >>)
         ELSE Warn(w, << Str(JsToString(topic)
                             \o " is not a supported event for this Controller.") >>)

(***************************************************************************)
(* Data stores: the relay of their lifecycle events to the bus.            *)
(***************************************************************************)
\* this.dataevents
DriverDataEvents ==
    << "record.create", "record.delete", "record.duplicate", "record.update",
       "record.expired", "record.restored", "record.purged", "index.create",
       "index.delete", "filter.create", "filter.remove" >>

ControllerDataEvents ==
    << "record.create", "record.delete", "index.create", "index.delete",
       "record.duplicate", "record.update" >>

DataEvents(k) == IF k = "Driver" THEN DriverDataEvents ELSE ControllerDataEvents

\* The separators scopeStoreEvents recognises at the end of the namespace.
Separators == {" ", "-", ".", "_", "+", ":"}

\* The name a Driver listener emits under (driver.js 565-569).
QualifiedName(ns, name, sep, e) ==
    IF sep \in Separators THEN ns \o name \o sep \o e ELSE ns \o name \o e

\* The bus calls of one listener the facade attached to a store, when the
\* store fires the listener's event with `payload` (driver.js 562-572,
\* controller.js 197-199).
Listener(w, l, payload) ==
    IF l.kind = "Driver"
    THEN BusInvoke(BusMember(w, "emit"), "emit",
                   << Str(QualifiedName(JsToString(w.scope), l.name, l.sep, l.event)) >>
                   \o payload)
    ELSE BusCall(w, "emit", << Str(JsToString(w.scope) \o l.event), Arg(payload, 1) >>)

RECURSIVE RunListeners(_, _, _, _, _)
\* store.emit(e, ...payload): the listeners of e on the store, in the order
\* they were attached.
RunListeners(w, ls, store, e, payload) ==
    IF ls = << >> THEN w
    ELSE RunListeners(IF Head(ls).store = store /\ Head(ls).event = e
                      THEN Listener(w, Head(ls), payload)
                      ELSE w,
                      Tail(ls), store, e, payload)

RECURSIVE AttachEach(_, _, _, _)
\* this.dataevents.forEach(e => this.datastores[name].on(e, listener))
AttachEach(w, es, name, sep) ==
    IF es = << >> \/ ~Ok(w) THEN w
    ELSE IF ~Has(w.datastores, name)
         THEN Throw(w, TypeError("Cannot read property 'on' of undefined"))
         ELSE AttachEach(
                  [Call(w, w.datastores[name].val, "on", << Str(Head(es)) >>) EXCEPT
                       !.listeners = Append(@, [store |-> w.datastores[name],
                                                event |-> Head(es), name |-> name,
                                                sep |-> sep, kind |-> w.kind])],
                  Tail(es), name, sep)

\* scopeStoreEvents(name, suppress) (driver.js 553-577, controller.js 192-204)
ScopeStoreEvents(w, name, suppress) ==
    IF ~Ok(w) THEN w
    ELSE IF w.scope # Null
         THEN AttachEach(w, DataEvents(w.kind), name,
                         IF w.kind = "Driver"
                         THEN CharAt(w.scope.val, Len(w.scope.val))
                         ELSE "")
         ELSE IF Falsy(Coalesce(<< suppress, Bool(FALSE) >>))
              THEN Warn(w, << Str(w.kind \o ".scopeStoreEvents called without a defined "
                                  \o (IF w.kind = "Driver" THEN "namespace." ELSE "scope.")) >>)
              ELSE w

RECURSIVE OffEach(_, _)
\* this.dataevents.forEach(e => NGN.BUS.off(this.scope + e))
OffEach(w, es) ==
    IF es = << >> \/ ~Ok(w) THEN w
    ELSE OffEach(BusCall(w, "off", << Str(JsToString(w.scope) \o Head(es)) >>), Tail(es))

\* addStore(name, store) (driver.js 487-501, controller.js 168-181)
AddStore(w, name, store) ==
    LET w1 == IF Has(w.datastores, name)
              THEN LET w2 == IF w.scope # Null THEN OffEach(w, DataEvents(w.kind)) ELSE w
                   IN  IF w.kind = "Driver"
                       THEN Warn(w2, << Str("Driver already had a reference to %c" \o name
                                            \o "%c, which has been overwritten."),
                                        NGNcss, Str("") >>)
                       ELSE Warn(w2, << Str("Controller already had a reference to " \o name
                                            \o ", which has been overwritten.") >>)
              ELSE w
        w3 == IF Ok(w1) THEN [w1 EXCEPT !.datastores = Put(@, name, store)] ELSE w1
    IN  ScopeStoreEvents(w3, name, Undefined)

(***************************************************************************)
(* DOM references.                                                         *)
(***************************************************************************)
\* Whether REF[name] is undefined or null.
Unset(table, name) == ~Has(table, name) \/ table[name].type \in {"null", "undefined"}

\* NGNX.REF.create(name, selector) / NGN.ref.create(name, selector), the
\* registry's own part: `strict` is whether this registry refuses a selector
\* that is null or undefined, which the facades do not decide.
RefCreate(w, name, selector, strict) ==
    IF ~Ok(w) THEN w
    ELSE LET w1 == Call(w, "REF", "create", << Str(name), selector >>)
         IN  IF strict /\ selector.type \in {"null", "undefined"}
             THEN Throw(w1, Error("Cannot create a null/undefined selector reference."))
             ELSE [w1 EXCEPT !.REF = Put(@, name, selector)]

\* Driver.createReference(name, selector) (driver.js 299-314)
CreateReference(w, name, selector) ==
    IF ~Ok(w) THEN w
    ELSE IF Falsy(selector)
         THEN Throw(w, Error("Invalid selector specified for new " \o name \o " reference."))
         ELSE LET full == w.id \o "-" \o name
              IN  IF Unset(w.REF, full)
                  THEN [RefCreate(w, full, selector, FALSE) EXCEPT
                            !.ref = Put(@, name, full)]
                  ELSE w

\* Driver.addReference(...arguments)
AddReference(w, args) == CreateReference(w, JsToString(Arg(args, 1)), Arg(args, 2))

\* Driver.ref[name]: the selector the reference resolves with, or undefined.
DriverRef(name) ==
    IF Has(ref, name) /\ Has(REF, ref[name]) THEN REF[ref[name]] ELSE Undefined

\* Controller.ref[name]: the global registry itself.
ControllerRef(name) == IF Has(REF, name) THEN REF[name] ELSE Undefined

(***************************************************************************)
(* Templates (driver.js 336-464).                                          *)
(***************************************************************************)
\* Driver.addTemplate(name, source)
AddTemplate(w, name, source) == [w EXCEPT !.templates = Put(@, name, source)]

\* document.querySelector(selector): the selectors that name the parent element.
ParentElement == Obj("parent")
QuerySelector(selector) == IF selector = "#parent" THEN ParentElement ELSE Null

\* The node a piece of markup becomes once it is in the document.
Node(element) ==
    IF element.type = "string" THEN Obj("node:" \o element.val) ELSE element

InsertPositions == {"beforebegin", "afterbegin", "beforeend", "afterend"}

\* parent.insertAdjacentHTML / insertAdjacentElement(position, element)
Insert(w, parent, position, element) ==
    IF ~Ok(w) THEN w
    ELSE IF parent.type \in {"null", "undefined"}
         THEN Throw(w, TypeError("Cannot read property 'insertAdjacentElement' of "
                                 \o parent.val))
         ELSE LET fn == IF TypeOf(element) = "string"
                        THEN "insertAdjacentHTML" ELSE "insertAdjacentElement"
                  w1 == Call(w, "DOM", fn, << Str(position), element >>)
              IN  CASE position = "beforeend" ->
                          [w1 EXCEPT !.dom.children = Append(@, Node(element))]
                    [] position = "afterbegin" ->
                          [w1 EXCEPT !.dom.children = << Node(element) >> \o @]
                    [] position = "beforebegin" ->
                          [w1 EXCEPT !.dom.previousSibling = Node(element)]
                    [] position = "afterend" ->
                          [w1 EXCEPT !.dom.nextSibling = Node(element)]
                    [] OTHER ->
                          Throw(w1, Error("SyntaxError: The value provided ('" \o position
                                          \o "') is not one of 'beforeBegin', 'afterBegin', 'beforeEnd', or 'afterEnd'."))

\* Driver.templateRendered(element)
TemplateRendered(w, element) ==
    LET w1 == BusCall(w, "emit",
                      << Str(JsToString(w.scope) \o "template.rendered"), element >>)
        w2 == BusCall(w1, "emit", << Str("template.rendered"), element >>)
    IN  BusCall(w2, "emit", << Str("template.render"), element >>)

\* Driver.adjustedRender(parent, element, position, callback)
AdjustedRender(w, parent, element, position, callback) ==
    LET pos == IF ToLowerCase(Trim(position)) \in {"beforebegin", "afterbegin", "afterend"}
               THEN position ELSE "beforeend"
        w1 == Insert(w, parent, pos, element)
        last == IF w1.dom.children = << >> THEN Null
                ELSE w1.dom.children[Len(w1.dom.children)]
        first == IF w1.dom.children = << >> THEN Null ELSE w1.dom.children[1]
        w2 == CASE pos = "beforeend" -> TemplateRendered(w1, element)
                [] pos = "beforebegin" -> TemplateRendered(w1, w1.dom.previousSibling)
                [] pos = "afterend" -> TemplateRendered(w1, w1.dom.nextSibling)
                [] pos = "afterbegin" -> TemplateRendered(w1, first)
                [] OTHER -> TemplateRendered(w1, last)
    IN  IF callback.type = "function" /\ ~w.hasDOM
        THEN Call(w2, "callback", callback.val, << >>)
        ELSE w2

\* table[k], undefined when the table has no k.
Lookup(table, k) == IF Has(table, k) THEN table[k] ELSE Undefined

\* Driver.render, the parent given as a selector (driver.js 397-407): the
\* element the selector names, and whether render gives up.
ResolveParentNoAbort(w, parent) ==
    [w |-> w, parent |-> IF TypeOf(parent) = "string" THEN QuerySelector(parent.val)
                         ELSE parent,
     abort |-> FALSE]

ResolveParent(w, parent) ==
    IF TypeOf(parent) # "string" THEN [w |-> w, parent |-> parent, abort |-> FALSE]
    ELSE LET w1 == Call(w, "DOM", "querySelector", << parent >>)
             p == QuerySelector(parent.val)
         IN  IF p = Null
             THEN [w |-> Warn(w1, << Str("%c" \o parent.val
                                         \o "%c is not a valid selector or the referenced parent DOM element could not be found."),
                                     NGNcss, Str("") >>),
                   parent |-> p, abort |-> TRUE]
             ELSE [w |-> w1, parent |-> p, abort |-> FALSE]

\* Driver.render, once the template name is known to be registered
\* (driver.js 381-421), up to the hand-over to NGN.NET.template.  A
\* continuation handed over is kept with what it closes over (parent,
\* position, callback) and, for the record, the arguments render was called
\* with (origin).
RenderRegistered(w, name, data, parent, position, callback) ==
    LET d == IF data.type = "entity" THEN Obj(data.val \o ".representation") ELSE data
    IN  IF TypeOf(d) # "object"
        THEN Throw(Call(w, "console", "error", << Str("Invalid Data"), d >>),
                   Error("The data provided to the renderer could not be processed because it is not a key/value object."))
        ELSE IF TypeOf(parent) = "function"
        THEN [Call(w, "NET", "template", << Lookup(w.templates, name), d, parent >>)
              EXCEPT !.pending = Append(@, [mode |-> "callback", parent |-> parent,
                                            position |-> "", callback |-> Undefined,
                                            origin |-> << Str(name), data, parent,
                                                          position, callback >>])]
        ELSE LET r == ResolveParent(w, parent)
                 pos == OrElse(position, Str("beforeend"))
             IN  IF r.abort THEN r.w
                 ELSE IF pos.type # "string"
                 THEN Throw(r.w, TypeError("(position || \"beforeend\").toLowerCase is not a function"))
                 ELSE [Call(r.w, "NET", "template",
                            << Lookup(w.templates, name), d, Fn("render continuation") >>)
                       EXCEPT !.pending =
                           Append(@, [mode |-> "render", parent |-> r.parent,
                                      position |-> ToLowerCase(pos.val),
                                      callback |-> callback,
                                      origin |-> << Str(name), data, parent,
                                                    position, callback >>])]

\* Driver.render(name, data, parent, position, callback) (driver.js 376-421)
RenderNoRegistryCheck(w, name, data, parent, position, callback) ==
    RenderRegistered(w, name, data, parent, position, callback)

RenderEager(w, name, data, parent, position, callback) ==
    IF ~Has(w.templates, name)
    THEN Throw(w, Error("The Driver does not have a reference to a template called "
                        \o Trim(name) \o "."))
    ELSE TemplateRendered(RenderRegistered(w, name, data, parent, position, callback),
                          parent)

Render(w, name, data, parent, position, callback) ==
    IF ~Has(w.templates, name)
    THEN Throw(w, Error("The Driver does not have a reference to a template called "
                        \o Trim(name) \o "."))
    ELSE RenderRegistered(w, name, data, parent, position, callback)

\* The continuation render handed to NGN.NET.template, invoked with the
\* rendered element (driver.js 412-420).  With NGN.DOM present the element
\* goes through NGN.DOM.svg.update, which hands the content on.
Continuation(w, c, element) ==
    IF c.mode = "callback"
    THEN Call(w, "callback", c.parent.val, << element >>)
    ELSE IF w.hasDOM
         THEN AdjustedRender(Call(w, "DOM", "svg.update", << element >>),
                             c.parent, element, c.position, c.callback)
         ELSE AdjustedRender(w, c.parent, element, c.position, c.callback)

(***************************************************************************)
(* The constructors (driver.js 29-258, controller.js 28-145).              *)
(***************************************************************************)
\* A configuration object with nothing set.
NoCfg ==
    [namespace |-> Undefined, scope |-> Undefined, references |-> Undefined,
     ref |-> Undefined, stores |-> Undefined, templates |-> Undefined,
     on |-> Undefined, events |-> Undefined, pool |-> Undefined,
     once |-> Undefined, forward |-> Undefined, id |-> Undefined]

Entry(k, v) == [key |-> k, value |-> v]

RECURSIVE TableOf(_)
\* The table a key/value object holds.
TableOf(entries) ==
    IF entries = << >> THEN EmptyTable
    ELSE Put(TableOf(SubSeq(entries, 1, Len(entries) - 1)),
             entries[Len(entries)].key, entries[Len(entries)].value)

RECURSIVE CreateReferences(_, _)
\* Object.keys(this._references).forEach(r => this.createReference(r, ...))
CreateReferences(w, entries) ==
    IF entries = << >> THEN w
    ELSE CreateReferences(CreateReference(w, Head(entries).key, Head(entries).value),
                          Tail(entries))

RECURSIVE ScopeStores(_, _)
\* Object.keys(this.datastores).forEach(name => this.scopeStoreEvents(name))
ScopeStores(w, entries) ==
    IF entries = << >> THEN w
    ELSE ScopeStores(ScopeStoreEvents(w, Head(entries).key, Undefined), Tail(entries))

RECURSIVE InitializeOneOffEvent(_, _, _, _)
RECURSIVE OneOffEach(_, _, _)
\* Driver.initializeOneOffEvent(eventName, handler, namespace)
InitializeOneOffEvent(w, eventName, handler, namespace) ==
    LET ns == JsToString(Coalesce(<< namespace, Str("") >>))
    IN  IF TypeOf(handler) = "function"
        THEN DriverOnce(w, << Str(ns \o eventName), handler >>)
        ELSE OneOffEach(w, handler.entries, Str(ns \o eventName \o "."))

OneOffEach(w, entries, namespace) ==
    IF entries = << >> \/ ~Ok(w) THEN w
    ELSE OneOffEach(InitializeOneOffEvent(w, Head(entries).key, Head(entries).value,
                                          namespace),
                    Tail(entries), namespace)

RECURSIVE ForwardEach(_, _)
\* Object.keys(this.initialforwarders).forEach(e => this.forward(e, ...))
ForwardEach(w, entries) ==
    IF entries = << >> \/ ~Ok(w) THEN w
    ELSE ForwardEach(DriverForward(w, << Str(Head(entries).key), Head(entries).value >>),
                     Tail(entries))

\* new NGNX.Driver(cfg); guid is what NGN.DATA.util.GUID() returns.
DriverConstructor(w, cfg, guid) ==
    LET references == Coalesce(<< cfg.references, cfg.ref, EmptyMap >>)
        stores == OrElse(cfg.stores, EmptyMap)
        initialpool == Coalesce(<< cfg.on, cfg.events, cfg.pool, Null >>)
        initialpoolonce == OrElse(cfg.once, Null)
        initialforwarders == OrElse(cfg.forward, Null)
        w0 == [w EXCEPT !.kind = "Driver",
                        !.scope = OrElse(cfg.namespace, Null),
                        !.ref = EmptyTable,
                        !.datastores = TableOf(stores.entries),
                        !.templates = TableOf(OrElse(cfg.templates, EmptyMap).entries),
                        !.id = Sanitize(JsToString(
                                   Coalesce(<< cfg.id, cfg.namespace, guid >>)))]
        w1 == CreateReferences(w0, references.entries)
        w2 == IF w1.scope # Null THEN ScopeStores(w1, stores.entries) ELSE w1
        w3 == IF Ok(w2) /\ ~Falsy(initialpool)
              THEN DriverPool(w2, initialpool, Undefined) ELSE w2
        w4 == IF Ok(w3) /\ ~Falsy(initialpoolonce)
              THEN OneOffEach(w3, initialpoolonce.entries, Undefined) ELSE w3
    IN  IF Ok(w4) /\ ~Falsy(initialforwarders)
        THEN ForwardEach(w4, initialforwarders.entries) ELSE w4

RECURSIVE ControllerReferences(_, _, _)
\* Object.keys(this.references).forEach(r => { if (NGN.ref[r] is unset) NGN.ref.create(r, ...) })
ControllerReferences(w, entries, strict) ==
    IF entries = << >> \/ ~Ok(w) THEN w
    ELSE ControllerReferences(
             IF Unset(w.REF, Head(entries).key)
             THEN RefCreate(w, Head(entries).key, Head(entries).value, strict)
             ELSE w,
             Tail(entries), strict)

\* new NGNX.Controller(cfg)
ControllerConstructor(w, cfg, strict) ==
    LET stores == OrElse(cfg.stores, EmptyMap)
        w0 == [w EXCEPT !.kind = "Controller",
                        !.scope = OrElse(cfg.scope, Null),
                        !.datastores = TableOf(stores.entries),
                        !.events = << >>]
        w1 == ControllerReferences(w0, OrElse(cfg.references, EmptyMap).entries, strict)
    IN  IF w1.scope # Null THEN ScopeStores(w1, stores.entries) ELSE w1

(***************************************************************************)
(* The state before a facade is constructed, and the inputs of the model.  *)
(***************************************************************************)
EmptyDom == [children |-> << >>, previousSibling |-> Null, nextSibling |-> Null]

\* Before the constructor: the bus has no handlers, the stores no listeners,
\* the document an empty parent element; NGN.BUS and NGN.DOM are there or not,
\* and the global reference registry holds the entries of `refs`.
Start(bus, domlib, refs) ==
    /\ phase = "new"
    /\ kind = "none"
    /\ scope = Null
    /\ id = ""
    /\ busAvailable \in bus
    /\ hasDOM \in domlib
    /\ REF \in refs
    /\ ref = EmptyTable
    /\ datastores = EmptyTable
    /\ listeners = << >>
    /\ busHandlers = << >>
    /\ events = << >>
    /\ templates = EmptyTable
    /\ pending = << >>
    /\ dom = EmptyDom
    /\ op = [name |-> "none", args |-> << >>]
    /\ calls = << >>
    /\ threw = NoError
    /\ others = << >>

Namespaces == {Undefined, Str("shop."), Str("ns")}
Guids == {Str("6f2a-11")}
H1 == Fn("h1")
EventNames == {"click", "template.render"}

\* Argument lists of the namespacing methods: none, a string first, a
\* first argument that is no string.
ArgLists ==
    {<< >>, << Num("5") >>, << H1 >>, << Num("5"), H1 >>, << Obj("o1") >>, << Null, H1 >>}
    \cup {<< Str(e) >> : e \in EventNames}
    \cup {<< Str(e), H1 >> : e \in EventNames}
    \cup {<< Str(e), Obj("p1"), Num("2") >> : e \in EventNames}

(***************************************************************************)
(* Actions: one per constructor, method and external event.                *)
(***************************************************************************)
Ready(k) == phase = "ready" /\ kind = k

NewDriver(cfg, guid) ==
    /\ phase = "new"
    /\ LET w == DriverConstructor(World, cfg, guid)
       IN  /\ Commit("constructor", << cfg >>, w)
           /\ phase' = IF Ok(w) THEN "ready" ELSE "failed"

NewController(cfg, strict) ==
    /\ phase = "new"
    /\ LET w == ControllerConstructor(World, cfg, strict)
       IN  /\ Commit("constructor", << cfg >>, w)
           /\ phase' = IF Ok(w) THEN "ready" ELSE "failed"

Method(k, name, args, w) ==
    /\ Ready(k)
    /\ Len(w.busHandlers) <= MaxHandlers
    /\ Commit(name, args, w)
    /\ UNCHANGED phase

Emit(args) == Method("Driver", "emit", args, DriverEmit(World, args))
On(args) == Method("Driver", "on", args, DriverOn(World, args))
Once(args) == Method("Driver", "once", args, DriverOnce(World, args))
Forward(args) == Method("Driver", "forward", args, DriverForward(World, args))
DelayEmit(args) == Method("Driver", "delayEmit", args, DriverDelayEmit(World, args))
Threshold(args) == Method("Driver", "threshold", args, DriverThreshold(World, args))
ThresholdOnce(args) ==
    Method("Driver", "thresholdOnce", args, DriverThresholdOnce(World, args))
Attach(args) == Method("Driver", "attach", args, DriverAttach(World, args))
Pool(args) ==
    Method("Driver", "pool", args, DriverPool(World, Arg(args, 1), Arg(args, 2)))
OnController(args) ==
    Method("Controller", "on", args, ControllerOn(World, Arg(args, 1), Arg(args, 2)))

(***************************************************************************)
(* The namespacing methods on their own.                                   *)
(***************************************************************************)
BusCfgs ==
    {[NoCfg EXCEPT !.namespace = n, !.scope = n] : n \in Namespaces}
    \cup {[NoCfg EXCEPT !.namespace = Str("shop."),
                        !.on = MapObj(<< Entry("click", H1) >>),
                        !.once = MapObj(<< Entry("nav", MapObj(<< Entry("open", H1) >>)) >>),
                        !.forward = MapObj(<< Entry("click", Str("clicked")) >>)],
          [NoCfg EXCEPT !.namespace = Str("app "),
                        !.events = MapObj(<< Entry("click", H1) >>)]}

InitBus == Start(BOOLEAN, {FALSE}, {EmptyTable})

NextBus ==
    \/ \E cfg \in BusCfgs, g \in Guids : NewDriver(cfg, g)
    \/ \E cfg \in BusCfgs : NewController(cfg, FALSE)
    \/ \E args \in ArgLists : Emit(args)
    \/ \E args \in ArgLists : On(args)
    \/ \E args \in ArgLists : Once(args)
    \/ \E args \in ArgLists : Forward(args)
    \/ \E args \in ArgLists : DelayEmit(args)
    \/ \E args \in ArgLists : Threshold(args)
    \/ \E args \in ArgLists : ThresholdOnce(args)
    \/ \E args \in ArgLists : Attach(args)
    \/ \E args \in ArgLists : Pool(args)
    \/ \E args \in ArgLists : OnController(args)

SpecBus == InitBus /\ [][NextBus]_vars

(***************************************************************************)
(* Properties of the namespacing methods.                                  *)
(***************************************************************************)
\* The namespace prefix the specification describes: the configured
\* namespace, the empty string when none is configured.
Prefix == IF scope = Null THEN "" ELSE scope.val

\* The calls made on collaborator `obj`, in order.
CallsOn(cs, obj) == SelectSeq(cs, LAMBDA c : c.obj = obj)

NamespacingMethods ==
    {"emit", "on", "once", "forward", "delayEmit", "threshold", "thresholdOnce", "attach"}

\* C1: with the bus available, a Driver namespacing method called with a
\* string event name E first makes exactly one call of the same-named bus
\* primitive, with N+E first (E alone when no namespace is set) and the
\* caller's remaining arguments after it, unchanged and in order.
C1_NamespacedCall ==
    (/\ Ready("Driver") /\ busAvailable
     /\ op.name \in NamespacingMethods
     /\ Len(op.args) > 0 /\ Arg(op.args, 1).type = "string")
    => /\ threw = NoError
       /\ CallsOn(calls, "BUS") =
              << [obj |-> "BUS", fn |-> op.name,
                  args |-> << Str(Prefix \o op.args[1].val) >> \o Tail(op.args)] >>

\* C1 witness: a Driver with namespace "shop." emitted click with two payload
\* arguments, and a Driver without a namespace subscribed to click.
C1_Witness ==
    /\ Ready("Driver") /\ busAvailable
    /\ \/ /\ scope = Str("shop.") /\ op.name = "emit"
          /\ op.args = << Str("click"), Obj("p1"), Num("2") >>
          /\ calls = << [obj |-> "BUS", fn |-> "emit",
                         args |-> << Str("shop.click"), Obj("p1"), Num("2") >>] >>
       \/ /\ scope = Null /\ op.name = "on"
          /\ op.args = << Str("click"), H1 >>
          /\ calls = << [obj |-> "BUS", fn |-> "on",
                         args |-> << Str("click"), H1 >>] >>

\* C4: with the bus available, a Driver namespacing method called with no
\* arguments, or with a first argument that is no string (for on: and no
\* object), hands the bus primitive exactly the caller's argument list.
C4_ForwardedUnmodified ==
    (/\ Ready("Driver") /\ busAvailable
     /\ op.name \in NamespacingMethods \ {"once"}
     /\ \/ Len(op.args) = 0
        \/ /\ Arg(op.args, 1).type # "string"
           /\ ~(op.name = "on" /\ TypeOf(Arg(op.args, 1)) = "object"))
    => CallsOn(calls, "BUS") = << [obj |-> "BUS", fn |-> op.name, args |-> op.args] >>

\* C5: with the bus unavailable, registering a handler for a string event
\* name through Driver.on, Driver.once or Controller.on logs a warning, throws
\* nothing and changes no registry and no subscription.
C5_BusUnavailableNoOp ==
    [][(/\ phase = "ready" /\ ~busAvailable
        /\ op'.name \in {"on", "once"}
        /\ Len(op'.args) > 0 /\ Arg(op'.args, 1).type = "string")
       => /\ threw' = NoError
          /\ \E i \in 1..Len(calls') : calls'[i].obj = "console" /\ calls'[i].fn = "warn"
          /\ UNCHANGED << REF, ref, datastores, templates, busHandlers, listeners,
                          events >>]_vars

\* The namespace argument of NGN.BUS.pool for prefix s: the bus takes null for
\* "no prefix".
PoolNamespace(s) == IF s = "" THEN Null ELSE Str(s)

PoolCall(ns, handlers) ==
    [obj |-> "BUS", fn |-> "pool", args |-> << PoolNamespace(ns), handlers >>]

\* Whether v is an object of handlers.
Handlers(v) == v.type \in {"object", "map"}

\* The handlers a Driver constructor is configured to pool.
InitialPool(cfg) == Coalesce(<< cfg.on, cfg.events, cfg.pool, Null >>)

\* C11: with the bus available, Driver.pool(X, handlers) makes exactly one
\* call BUS.pool(N+X, handlers), and Driver.pool(handlers),
\* Driver.on(handlers) and the constructor's events configuration exactly
\* one call BUS.pool(N, handlers), N being the namespace as configured.
C11_PoolVerbatim ==
    (Ready("Driver") /\ busAvailable)
    => /\ (/\ op.name = "pool" /\ Arg(op.args, 1).type = "string"
           /\ Handlers(Arg(op.args, 2)))
          => CallsOn(calls, "BUS") = << PoolCall(Prefix \o op.args[1].val, op.args[2]) >>
       /\ (op.name \in {"pool", "on"} /\ Handlers(Arg(op.args, 1)))
          => CallsOn(calls, "BUS") = << PoolCall(Prefix, op.args[1]) >>
       /\ (op.name = "constructor" /\ Handlers(InitialPool(op.args[1])))
          => SelectSeq(calls, LAMBDA c : c.obj = "BUS" /\ c.fn = "pool")
                 = << PoolCall(Prefix, InitialPool(op.args[1])) >>

\* C12: with the bus available, on(E, handler) of a Controller constructed
\* without a scope subscribes handler, once, to the bus event named E as
\* given.
C12_ControllerOnVerbatim ==
    [][(/\ Ready("Controller") /\ scope = Null /\ busAvailable
        /\ op'.name = "on"
        /\ Arg(op'.args, 1).type = "string" /\ Arg(op'.args, 2).type = "function")
       => /\ threw' = NoError
          /\ CallsOn(calls', "BUS") =
                 << [obj |-> "BUS", fn |-> "on",
                     args |-> << op'.args[1], op'.args[2] >>] >>
          /\ busHandlers' = Append(busHandlers,
                                   [event |-> op'.args[1].val,
                                    handler |-> op'.args[2].val, once |-> FALSE])]_vars

(***************************************************************************)
(* The store relay on its own.                                             *)
(***************************************************************************)
S1 == Obj("store1")
S2 == Obj("store2")
Stores == {S1, S2}
StoreNames == {"cart", "user"}

\* The events the stores fire: one both facades relay, one only the Driver
\* relays, one neither relays.
FiredEvents == {"record.create", "record.expired", "store.custom"}
Payloads == {<< >>, << Obj("rec1") >>, << Obj("rec1"), Num("2") >>}

\* How many times scopeStoreEvents attached its listeners.
Attachments(ls) == Len(SelectSeq(ls, LAMBDA l : l.event = "record.create"))

\* addStore(name, store)
AddStoreCall(name, store) ==
    /\ phase = "ready"
    /\ Attachments(listeners) < MaxAttach
    /\ Commit("addStore", << Str(name), store >>, AddStore(World, name, store))
    /\ UNCHANGED phase

\* A store fires event e with a payload: store.emit(e, ...payload).
Fire(store, e, payload) ==
    /\ phase = "ready"
    /\ Commit("fire", << store, Str(e) >> \o payload,
              RunListeners(World, listeners, store, e, payload))
    /\ UNCHANGED phase

StoreCfgs ==
    {[NoCfg EXCEPT !.namespace = n, !.scope = n, !.stores = st] :
        n \in Namespaces,
        st \in {Undefined, MapObj(<< Entry("cart", S1) >>),
                MapObj(<< Entry("cart", S1), Entry("user", S2) >>)}}

InitStore == Start(BOOLEAN, {FALSE}, {EmptyTable})

NextStore ==
    \/ \E cfg \in StoreCfgs, g \in Guids : NewDriver(cfg, g)
    \/ \E cfg \in StoreCfgs : NewController(cfg, FALSE)
    \/ \E name \in StoreNames, store \in Stores : AddStoreCall(name, store)
    \/ \E store \in Stores, e \in FiredEvents, payload \in Payloads :
           Fire(store, e, payload)
    \/ On(<< Str("record.create"), H1 >>)

SpecStore == InitStore /\ [][NextStore]_vars

\* The names of the events emitted on the bus by the last method, in order.
Emitted ==
    LET es == SelectSeq(calls, LAMBDA c : c.obj = "BUS" /\ c.fn = "emit")
    IN  [i \in 1..Len(es) |-> es[i].args[1].val]

\* The names a table registers a value under.
NamesOf(table, v) == {k \in DOMAIN table : table[k] = v}

\* The store and the event of the last firing.
FiredStore == op.args[1]
FiredEvent == op.args[2].val

\* C2: a Driver with namespace N ending in C relays event K of its
\* dataevents list, fired on the store registered as S, as N+K and as
\* N+S+C+K (N+S+K when C is no recognised separator).
C2_BothNamesEmitted ==
    (/\ Ready("Driver") /\ scope # Null /\ busAvailable
     /\ op.name = "fire" /\ IndexOf(DriverDataEvents, FiredEvent))
    => \A S \in NamesOf(datastores, FiredStore) :
           LET C == CharAt(Prefix, Len(Prefix))
               range == {Emitted[i] : i \in 1..Len(Emitted)}
           IN  /\ (Prefix \o FiredEvent) \in range
               /\ (Prefix \o S \o (IF C \in Separators THEN C ELSE "") \o FiredEvent)
                      \in range

\* C3: once addStore has registered another store under a name, the store
\* the name held before relays nothing: firing an event on a store that is
\* registered under no name emits nothing on the bus.
C3_OverwrittenStoreSilent ==
    (/\ phase = "ready" /\ scope # Null
     /\ op.name = "fire" /\ NamesOf(datastores, FiredStore) = {})
    => CallsOn(calls, "BUS") = << >>

\* C14: with a namespace configured, one firing of an event on a store that
\* is registered at the time emits no bus event name twice.
C14_NoDuplicateEmissions ==
    (/\ phase = "ready" /\ scope # Null /\ busAvailable
     /\ op.name = "fire" /\ NamesOf(datastores, FiredStore) # {})
    => \A i, j \in 1..Len(Emitted) : Emitted[i] = Emitted[j] => i = j

\* The payload arguments of the last firing.
FiredPayload == SubSeq(op.args, 3, Len(op.args))

\* C16: every bus emission the relay makes for a firing with payload
\* p1..pn (n >= 0) carries, after the event name, exactly p1..pn in order,
\* on Driver and Controller.
C16_PayloadRelayed ==
    (/\ phase = "ready" /\ scope # Null /\ busAvailable /\ op.name = "fire")
    => \A i \in 1..Len(calls) :
           (calls[i].obj = "BUS" /\ calls[i].fn = "emit")
           => Tail(calls[i].args) = FiredPayload

\* The listeners the facade attached for store names other than A.
ListenersApartFrom(ls, A) == SelectSeq(ls, LAMBDA l : l.name # A)

\* C17: with the bus available, addStore(A, store) on a name A the facade
\* holds changes the registry entry of A and the listeners attached for A
\* only: the bus subscriptions, the other registry entries and the listeners
\* attached for other names are as before.
C17_OverwriteFrame ==
    [][(/\ phase = "ready" /\ busAvailable
        /\ op'.name = "addStore" /\ Has(datastores, op'.args[1].val))
       => /\ busHandlers' = busHandlers
          /\ DOMAIN datastores' = DOMAIN datastores
          /\ \A n \in DOMAIN datastores \ {op'.args[1].val} :
                 datastores'[n] = datastores[n]
          /\ ListenersApartFrom(listeners', op'.args[1].val)
                 = ListenersApartFrom(listeners, op'.args[1].val)]_vars

(***************************************************************************)
(* The references on their own.                                            *)
(***************************************************************************)
RefNames == {"btn", "nav"}
Selectors == {Str("#a"), Str("#b"), Str(""), Null, Undefined}

\* Driver.createReference(name, selector)
CreateReferenceCall(name, selector) ==
    /\ Ready("Driver")
    /\ Commit("createReference", << Str(name), selector >>,
              CreateReference(World, name, selector))
    /\ UNCHANGED phase

\* Driver.addReference(name, selector)
AddReferenceCall(name, selector) ==
    /\ Ready("Driver")
    /\ Commit("addReference", << Str(name), selector >>,
              AddReference(World, << Str(name), selector >>))
    /\ UNCHANGED phase

\* NGN.DATA.util.GUID(), called for the n-th time after the first: an
\* identifier no earlier call returned.
RECURSIVE Digits(_)
Digits(n) == IF n = 0 THEN "" ELSE "0" \o Digits(n - 1)
FreshGuid(n) == Str("6f2a-11" \o Digits(n))

\* new NGNX.Driver(cfg) while an earlier Driver is in use: the earlier one
\* keeps its id and its this.ref, and the registry, the bus and the stores
\* are the ones it used.
AnotherDriver(cfg) ==
    /\ Ready("Driver")
    /\ Len(others) + 1 < MaxDrivers
    /\ LET w == DriverConstructor(
                    [World EXCEPT !.others = Append(@, [id |-> id, ref |-> ref])],
                    cfg, FreshGuid(Len(others) + 1))
       IN  /\ Commit("constructor", << cfg >>, w)
           /\ phase' = IF Ok(w) THEN "ready" ELSE "failed"

RefCfgs ==
    {[NoCfg EXCEPT !.namespace = n, !.references = r] :
        n \in {Undefined, Str("shop."), Str("shop-")},
        r \in {Undefined,
               MapObj(<< Entry("btn", Str("#a")) >>),
               MapObj(<< Entry("btn", Str("#a")), Entry("nav", Str("")) >>),
               MapObj(<< Entry("nav", Undefined), Entry("btn", Str("#b")) >>)}}

\* The registry before the facade is made: empty, or holding what another
\* facade registered.
InitRef ==
    Start({TRUE}, {FALSE},
          {EmptyTable, Put(EmptyTable, "btn", Str("#old")),
           Put(EmptyTable, "nav", Str("#old"))})

NextRef ==
    \/ \E cfg \in RefCfgs, g \in Guids : NewDriver(cfg, g)
    \/ \E cfg \in RefCfgs, strict \in BOOLEAN : NewController(cfg, strict)
    \/ \E name \in RefNames, sel \in Selectors : CreateReferenceCall(name, sel)
    \/ \E name \in RefNames, sel \in Selectors : AddReferenceCall(name, sel)
    \/ \E cfg \in RefCfgs : AnotherDriver(cfg)

SpecRef == InitRef /\ [][NextRef]_vars

\* Whether string s holds string sub.
Contains(s, sub) ==
    \E i \in 1..(Len(s) - Len(sub) + 1) : SubSeq(s, i, i + Len(sub) - 1) = sub

Warned(cs) == \E i \in 1..Len(cs) : cs[i].obj = "console" /\ cs[i].fn = "warn"

\* The references a constructor is configured with, in key order.
CfgReferences(cfg) ==
    IF kind' = "Driver" THEN Coalesce(<< cfg.references, cfg.ref, EmptyMap >>).entries
    ELSE OrElse(cfg.references, EmptyMap).entries

\* The name a facade keeps reference n under in the global registry.
GlobalName(n) == IF kind' = "Driver" THEN id' \o "-" \o n ELSE n

\* C8: a second registration of a reference name on a facade (Driver:
\* createReference/addReference of a name the Driver holds; Controller: a
\* configured name the global registry holds already) leaves the selector
\* of the first registration as it was, and logs a warning.
C8_SecondRegistrationWarns ==
    [][/\ (/\ Ready("Driver")
           /\ op'.name \in {"createReference", "addReference"}
           /\ Has(ref, op'.args[1].val) /\ ~Falsy(op'.args[2]))
          => /\ ref' = ref /\ REF' = REF
             /\ Warned(calls')
       /\ (/\ phase = "new" /\ kind' = "Controller")
          => \A i \in 1..Len(CfgReferences(op'.args[1])) :
                 LET e == CfgReferences(op'.args[1])[i]
                 IN  (Has(REF, e.key) /\ ~Falsy(e.value))
                     => /\ REF'[e.key] = REF[e.key]
                        /\ Warned(calls')]_vars

\* The first reference of a configuration whose selector is missing, if any.
FirstMissing(entries) ==
    LET bad == {i \in 1..Len(entries) : Falsy(entries[i].value)}
    IN  IF bad = {} THEN 0 ELSE CHOOSE i \in bad : \A j \in bad : i <= j

\* Registering reference n with a missing selector failed: an error naming n
\* was thrown and n was added neither to the global registry nor to this.ref.
FailedFast(n) ==
    /\ threw'.type = "Error" /\ Contains(threw'.message, n)
    /\ Has(REF', GlobalName(n)) => Has(REF, GlobalName(n))
    /\ ~Has(ref', n) \/ (phase = "ready" /\ Has(ref, n))

\* C9: registering a reference with a missing (empty, null or undefined)
\* selector throws an error naming the reference and adds nothing, through
\* Driver.createReference and addReference and through the references of the
\* constructor configuration of Driver and Controller.
C9_MissingSelectorFailsFast ==
    [][/\ (/\ Ready("Driver")
           /\ op'.name \in {"createReference", "addReference"}
           /\ Falsy(op'.args[2]))
          => FailedFast(op'.args[1].val)
       /\ (/\ phase = "new"
           /\ FirstMissing(CfgReferences(op'.args[1])) > 0
           /\ ~Has(REF, GlobalName(CfgReferences(op'.args[1])
                                       [FirstMissing(CfgReferences(op'.args[1]))].key)))
          => FailedFast(CfgReferences(op'.args[1])
                            [FirstMissing(CfgReferences(op'.args[1]))].key)]_vars

\* r[name] of a Driver whose this.ref is r, the global registry being
\* `registry`: the selector the reference resolves with, or undefined.
Resolve(registry, r, name) ==
    IF Has(r, name) /\ Has(registry, r[name]) THEN registry[r[name]] ELSE Undefined

\* C13: when a Driver B is constructed with a reference name that an earlier
\* Driver A holds with another selector, B.ref.name resolves to B's selector
\* and A.ref.name still resolves to A's, whatever id or namespace the two
\* were configured with.
C13_ReferencesApart ==
    [][(/\ Ready("Driver") /\ op'.name = "constructor" /\ others' # others
        /\ threw' = NoError)
       => \A j \in 1..Len(others') :
              \A i \in 1..Len(CfgReferences(op'.args[1])) :
                  LET A == others'[j]
                      e == CfgReferences(op'.args[1])[i]
                  IN  (Has(A.ref, e.key) /\ Resolve(REF, A.ref, e.key) # e.value)
                      => /\ Resolve(REF', ref', e.key) = e.value
                         /\ Resolve(REF', A.ref, e.key) = Resolve(REF, A.ref, e.key)]_vars

(***************************************************************************)
(* The template helper on its own.                                         *)
(***************************************************************************)
D1 == Obj("data1")
Done == Fn("done")

\* The calls of render the model makes: name, data, parent, position, callback.
RenderArgs ==
    {<< "main", D1, ParentElement, Undefined, Undefined >>,
     << "main", D1, ParentElement, Undefined, Done >>,
     << "main", D1, Str("#parent"), Str("afterbegin"), Undefined >>,
     << "main", D1, ParentElement, Str(" afterend "), Undefined >>,
     << "main", D1, ParentElement, Done, Undefined >>,
     << "main", D1, Str("#missing"), Undefined, Undefined >>,
     << "main", D1, Fn("cb"), Undefined, Undefined >>,
     << "main", Str("oops"), ParentElement, Undefined, Undefined >>,
     << "main", [type |-> "entity", val |-> "model1"], Str("#missing"), Undefined,
        Undefined >>,
     << "alt", D1, Str("#parent"), Str("BeforeBegin"), Undefined >>}

\* What the templating primitive hands the continuation: an element, or markup.
Rendered == {Obj("element1"), Str("<p>hi</p>")}

\* Driver.addTemplate(name, source)
AddTemplateCall(name, source) ==
    /\ Ready("Driver")
    /\ Commit("addTemplate", << Str(name), source >>, AddTemplate(World, name, source))
    /\ UNCHANGED phase

\* Driver.render(name, data, parent, position, callback)
RenderCall(a) ==
    /\ Ready("Driver")
    /\ LET w == Render(World, a[1], a[2], a[3], a[4], a[5])
       IN  /\ Len(w.pending) <= MaxPending
           /\ Commit("render", << Str(a[1]), a[2], a[3], a[4], a[5] >>, w)
    /\ UNCHANGED phase

\* NGN.NET.template invokes the i-th continuation it was handed, with the
\* rendered element.
TemplateLoaded(i, element) ==
    /\ Ready("Driver")
    /\ i \in 1..Len(pending)
    /\ Len(dom.children) < MaxChildren
    /\ LET rest == [j \in 1..(Len(pending) - 1) |->
                        IF j < i THEN pending[j] ELSE pending[j + 1]]
       IN  Commit("continuation", << element >> \o pending[i].origin,
                  Continuation([World EXCEPT !.pending = rest], pending[i], element))
    /\ UNCHANGED phase

RenderCfgs ==
    {[NoCfg EXCEPT !.namespace = n, !.templates = t] :
        n \in {Undefined, Str("shop.")},
        t \in {MapObj(<< Entry("main", Str("./main.html")) >>)}}

InitRender == Start({TRUE}, BOOLEAN, {EmptyTable})

NextRender ==
    \/ \E cfg \in RenderCfgs, g \in Guids : NewDriver(cfg, g)
    \/ AddTemplateCall("alt", Str("./alt.html"))
    \/ \E a \in RenderArgs : RenderCall(a)
    \/ \E i \in 1..MaxPending, element \in Rendered : TemplateLoaded(i, element)

SpecRender == InitRender /\ [][NextRender]_vars

\* The insertions into the document and the bus calls of the last method, in
\* order.
Effects ==
    SelectSeq(calls, LAMBDA c : \/ c.obj = "BUS"
                                \/ c.obj = "DOM" /\ c.fn # "querySelector"
                                                 /\ c.fn # "svg.update")

EmitCall(name, element) == [obj |-> "BUS", fn |-> "emit", args |-> << Str(name), element >>]

\* C6: the continuation of a render of a registered template with object
\* data, an element parent and no position inserts the rendered content at
\* 'beforeend', as the parent's last child, and then emits, in this order,
\* the namespaced template.rendered, the global template.rendered and the
\* global template.render, each with the rendered element.
C6_DefaultRender ==
    (/\ Ready("Driver") /\ busAvailable
     /\ op.name = "continuation"
     /\ op.args[4] = ParentElement /\ op.args[5] = Undefined)
    => /\ threw = NoError
       /\ dom.children # << >> /\ dom.children[Len(dom.children)] = Node(op.args[1])
       /\ Effects =
              << [obj |-> "DOM",
                  fn |-> IF op.args[1].type = "string" THEN "insertAdjacentHTML"
                         ELSE "insertAdjacentElement",
                  args |-> << Str("beforeend"), op.args[1] >>],
                 EmitCall(Prefix \o "template.rendered", op.args[1]),
                 EmitCall("template.rendered", op.args[1]),
                 EmitCall("template.render", op.args[1]) >>

\* Whether call c is an insertion into the document / the emission of a
\* completion event.
Insertion(c) == c.obj = "DOM" /\ c.fn \in {"insertAdjacentHTML", "insertAdjacentElement"}
Completion(c) ==
    /\ c.obj = "BUS" /\ c.fn = "emit"
    /\ c.args[1].val \in {JsToString(scope) \o "template.rendered", Prefix \o "template.rendered",
                          "template.rendered", "template.render"}

\* Whether p is a position render documents: none, or one of the anchors of
\* insertAdjacentHTML, in any letter case.
DocumentedPosition(p) ==
    p = Undefined \/ (p.type = "string" /\ ToLowerCase(p.val) \in InsertPositions)

\* C15: render itself inserts nothing and emits no completion event; these
\* happen only when the templating primitive invokes the continuation, so
\* never if it never does; and each invocation of the continuation of a
\* render with an element or resolvable parent (and a documented position)
\* makes exactly one insertion and then exactly three completion events.
C15_OnlyTheContinuationRenders ==
    [][/\ (Ready("Driver") /\ op'.name # "continuation") => Effects' = << >>
       /\ (/\ Ready("Driver") /\ op'.name = "continuation"
           /\ TypeOf(op'.args[4]) # "function"
           /\ DocumentedPosition(op'.args[5]))
          => /\ threw' = NoError
             /\ Len(Effects') = 4
             /\ Insertion(Effects'[1])
             /\ \A i \in 2..4 : Completion(Effects'[i])]_vars

\* C15 as stated, for every position render is given: each invocation of the
\* continuation of a render with an element or resolvable parent makes
\* exactly one insertion and then exactly three completion events.
C15_EveryPosition ==
    [][(/\ Ready("Driver") /\ op'.name = "continuation"
        /\ TypeOf(op'.args[4]) # "function")
       => /\ Len(Effects') = 4
          /\ Insertion(Effects'[1]) /\ threw' = NoError
          /\ \A i \in 2..4 : Completion(Effects'[i])]_vars

\* C15 witness: the continuation of a render with a selector parent and the
\* position 'afterbegin' ran: one insertion, then three completion events.
C15_Witness ==
    /\ Ready("Driver") /\ op.name = "continuation"
    /\ op.args[4] = Str("#parent") /\ op.args[5] = Str("afterbegin")
    /\ Len(Effects) = 4 /\ Insertion(Effects[1])
    /\ \A i \in 2..4 : Completion(Effects[i])

\* Whether string s begins with string pre.
StartsWith(s, pre) == Len(s) >= Len(pre) /\ SubSeq(s, 1, Len(pre)) = pre

\* The event names the last method passed to the bus, in order.
BusNames ==
    LET cs == SelectSeq(calls, LAMBDA c : /\ c.obj = "BUS" /\ Len(c.args) > 0
                                          /\ c.args[1].type = "string")
    IN  [i \in 1..Len(cs) |-> cs[i].args[1].val]

\* C18: every event name a Driver passes to the bus is the configured
\* namespace followed by the name, the empty string standing in when no
\* namespace is configured: a Driver without a namespace passes no name that
\* begins with 'null', and the first completion event of a render is named
\* namespace + 'template.rendered'.
C18_PrefixNeverNull ==
    Ready("Driver")
    => /\ scope = Null => \A i \in 1..Len(BusNames) : ~StartsWith(BusNames[i], "null")
       /\ (op.name = "continuation" /\ BusNames # << >>)
          => BusNames[1] = Prefix \o "template.rendered"

\* Whether the last error is render's refusal of an unknown template name.
UnknownTemplate(e) ==
    e.type = "Error" /\ Contains(e.message, "does not have a reference to a template")

\* C7: render with a template name that is not registered throws before any
\* call on the templating primitive, the DOM or the bus, and leaves the
\* template registry as it was; with a registered name (one addTemplate
\* added included) render does not throw for this reason.
C7_UnregisteredTemplateThrows ==
    [][(Ready("Driver") /\ op'.name = "render")
       => IF Has(templates, op'.args[1].val)
          THEN ~UnknownTemplate(threw')
          ELSE /\ UnknownTemplate(threw')
               /\ calls' = << >>
               /\ UNCHANGED << templates, pending, dom, busHandlers >>]_vars

\* C7 witness: render of the unregistered "alt" threw, and render of "alt"
\* went through once addTemplate had added it.
C7_Witness ==
    /\ Ready("Driver") /\ op.name = "render" /\ op.args[1] = Str("alt")
    /\ \/ ~Has(templates, "alt") /\ UnknownTemplate(threw) /\ calls = << >>
       \/ Has(templates, "alt") /\ threw = NoError /\ CallsOn(calls, "NET") # << >>

\* C10: render of a registered template with object data and a parent
\* selector that names no element logs a warning and returns: nothing is
\* thrown, the templating primitive is not called, nothing is inserted and no
\* completion event is emitted.
C10_UnresolvedParentAborts ==
    [][(/\ Ready("Driver") /\ op'.name = "render"
        /\ Has(templates, op'.args[1].val)
        /\ op'.args[2].type \in {"object", "entity"}
        /\ op'.args[3].type = "string" /\ QuerySelector(op'.args[3].val) = Null)
       => /\ threw' = NoError
          /\ Warned(calls')
          /\ CallsOn(calls', "NET") = << >>
          /\ CallsOn(calls', "BUS") = << >>
          /\ \A i \in 1..Len(calls') : calls'[i].obj = "DOM" => calls'[i].fn = "querySelector"
          /\ UNCHANGED << pending, dom, templates, busHandlers >>]_vars

\* C10 witness: render with the selector "#missing" warned and returned.
C10_Witness ==
    /\ Ready("Driver") /\ op.name = "render" /\ op.args[3] = Str("#missing")
    /\ Has(templates, op.args[1].val)
    /\ threw = NoError /\ Warned(calls) /\ CallsOn(calls, "NET") = << >>

(***************************************************************************)
(* The whole machine: every constructor, method and external event.  The   *)
(* specifications above are its restrictions to one subsystem each, which  *)
(* is what keeps model checking them feasible.                             *)
(***************************************************************************)
Init == Start(BOOLEAN, BOOLEAN, {EmptyTable, Put(EmptyTable, "btn", Str("#old"))})

Next == NextBus \/ NextStore \/ NextRef \/ NextRender

Spec == Init /\ [][Next]_vars

====
